---------------------------- MODULE Spec2Model ----------------------------
(***************************************************************************)
(* etl::bresenham_line<TCoordinate, TWorking> (include/etl/bresenham_line.h)*)
(*                                                                         *)
(* The generator object is the record `line`; its fields carry the names   *)
(* of the data members.  An iterator holds only the pointer                *)
(* p_bresenham_line, which is either null (the end iterator) or the        *)
(* address of the one generator; `it` holds that pointer for each iterator *)
(* variable of the calling program.                                        *)
(*                                                                         *)
(* The coordinates are drawn from 0..MaxCoord and the working members are  *)
(* computed in the integers.  TWorking is a template parameter: whether a  *)
(* stored value is a value of a given working type is stated as membership *)
(* in WorkingRange, which finds the first value that would overflow.       *)
(* Only calls inside the iterator's contract are modelled: operator++ and  *)
(* operator* are applied to iterators that are not the end iterator.       *)
(***************************************************************************)
EXTENDS Integers, Sequences, FiniteSets, TLC

VARIABLES
  line,     \* the bresenham_line object
  it,       \* it[c] : p_bresenham_line of the caller's iterator c
  last,     \* the constructor's argument last_ (not stored by the object)
  seq,      \* coordinates produced since the latest construction / begin()
  prevSeq,  \* the traversal before the latest begin(), if it ran to the end
  done,     \* an iterator was turned into the end iterator since begin()
  fresh,    \* no begin() was called after an advance
  pc,       \* position of the traversal loop
  out       \* coordinates the traversal loop has dereferenced

vars == <<line, it, last, seq, prevSeq, done, fresh, pc, out>>

MaxCoord == 4

Coord == 0 .. MaxCoord
Point == [x : Coord, y : Coord]

NULLPTR == "nullptr"
THIS    == "this"

Cursors == {"a", "b"}

Abs(n) == IF n < 0 THEN 0 - n ELSE n
Max(m, n) == IF m < n THEN n ELSE m

-----------------------------------------------------------------------------
(* The class.                                                              *)

\* Mutant: the comparison is turned round.
is_y_major_axis_inverted(l) == l.dx > l.dy

is_y_major_axis(l) == l.dx < l.dy

\* Mutant: the minor-increment flag starts set.
member_init_flag_set(first_, last_) ==
  [ first                   |-> first_,
    coordinate              |-> first_,
    x_increment             |-> IF last_.x < first_.x THEN -1 ELSE 1,
    y_increment             |-> IF last_.y < first_.y THEN -1 ELSE 1,
    dx                      |-> Abs(last_.x - first_.x),
    dy                      |-> Abs(last_.y - first_.y),
    total_n_coordinates     |-> 0,
    n_coordinates_remaining |-> 0,
    balance                 |-> 0,
    do_minor_increment      |-> TRUE ]

\* The member initialiser list of the constructor; the three members the
\* body assigns are given 0 here and are not read before they are assigned.
member_init(first_, last_) ==
  [ first                   |-> first_,
    coordinate              |-> first_,
    x_increment             |-> IF last_.x < first_.x THEN -1 ELSE 1,
    y_increment             |-> IF last_.y < first_.y THEN -1 ELSE 1,
    dx                      |-> IF last_.x < first_.x THEN first_.x - last_.x
                                                      ELSE last_.x - first_.x,
    dy                      |-> IF last_.y < first_.y THEN first_.y - last_.y
                                                      ELSE last_.y - first_.y,
    total_n_coordinates     |-> 0,
    n_coordinates_remaining |-> 0,
    balance                 |-> 0,
    do_minor_increment      |-> FALSE ]

\* Mutant: the length is always taken from dx.
constructor_body_dx_only(m) ==
  LET b == [m EXCEPT !.total_n_coordinates = m.dx + 1,
                     !.dy      = 2 * m.dy,
                     !.balance = 2 * m.dy - m.dx,
                     !.dx      = 2 * m.dx]
  IN  [b EXCEPT !.n_coordinates_remaining = b.total_n_coordinates - 1]

\* Mutant: only the minor delta is doubled.
constructor_body_major_not_doubled(m) ==
  LET b == IF is_y_major_axis(m)
           THEN [m EXCEPT !.total_n_coordinates = m.dy + 1,
                          !.dx      = 2 * m.dx,
                          !.balance = 2 * m.dx - m.dy]
           ELSE [m EXCEPT !.total_n_coordinates = m.dx + 1,
                          !.dy      = 2 * m.dy,
                          !.balance = 2 * m.dy - m.dx]
  IN  [b EXCEPT !.n_coordinates_remaining = b.total_n_coordinates - 1]

\* The body of the constructor, applied to the initialised members.
constructor_body(m) ==
  LET b == IF is_y_major_axis(m)
           THEN [m EXCEPT !.total_n_coordinates = m.dy + 1,
                          !.dx      = 2 * m.dx,
                          !.balance = 2 * m.dx - m.dy,
                          !.dy      = 2 * m.dy]
           ELSE [m EXCEPT !.total_n_coordinates = m.dx + 1,
                          !.dy      = 2 * m.dy,
                          !.balance = 2 * m.dy - m.dx,
                          !.dx      = 2 * m.dx]
  IN  [b EXCEPT !.n_coordinates_remaining = b.total_n_coordinates - 1]

bresenham_line(first_, last_) == constructor_body(member_init(first_, last_))

\* Mutant: the reset rewinds the counter but not the coordinate.
begin_keeps_coordinate(l) ==
  [l EXCEPT !.n_coordinates_remaining = l.total_n_coordinates - 1]

\* Mutant: the reset leaves total_n_coordinates coordinates to come.
begin_off_by_one(l) ==
  [l EXCEPT !.n_coordinates_remaining = l.total_n_coordinates,
            !.coordinate = l.first]

\* begin(): the generator after the call; the iterator returned points to it.
begin(l) ==
  [l EXCEPT !.n_coordinates_remaining = l.total_n_coordinates - 1,
            !.coordinate = l.first]

size(l)  == l.total_n_coordinates

\* Mutant: the first coordinate is not counted.
count_without_first(l) ==
  l.total_n_coordinates - l.n_coordinates_remaining - 1

count(l) == l.total_n_coordinates - l.n_coordinates_remaining

get_coordinate(l) == l.coordinate

\* The value next() stores in balance in its minor-axis part, before the
\* major-axis part adds to it (balance itself when the part is skipped).
balance_after_minor(l) ==
  IF ~l.do_minor_increment THEN l.balance
  ELSE IF is_y_major_axis(l) THEN l.balance - l.dy
                             ELSE l.balance - l.dx

\* Mutant: the major axis moves only when the minor axis does not.
next_major_skipped(l) ==
  LET moved ==
        IF is_y_major_axis(l)
        THEN IF l.do_minor_increment
             THEN [l EXCEPT !.coordinate.x = @ + l.x_increment,
                            !.balance = @ - l.dy]
             ELSE [l EXCEPT !.coordinate.y = @ + l.y_increment,
                            !.balance = @ + l.dx]
        ELSE IF l.do_minor_increment
             THEN [l EXCEPT !.coordinate.y = @ + l.y_increment,
                            !.balance = @ - l.dx]
             ELSE [l EXCEPT !.coordinate.x = @ + l.x_increment,
                            !.balance = @ + l.dy]
  IN  [moved EXCEPT !.n_coordinates_remaining = @ - 1,
                    !.do_minor_increment = (moved.balance >= 0)]

\* Mutant: the minor axis moves against its increment.
next_minor_reversed(l) ==
  LET minor ==
        IF ~l.do_minor_increment THEN l
        ELSE IF is_y_major_axis(l)
             THEN [l EXCEPT !.coordinate.x = @ - l.x_increment,
                            !.balance = @ - l.dy]
             ELSE [l EXCEPT !.coordinate.y = @ - l.y_increment,
                            !.balance = @ - l.dx]
      major ==
        IF is_y_major_axis(l)
        THEN [minor EXCEPT !.coordinate.y = @ + l.y_increment,
                           !.balance = @ + l.dx]
        ELSE [minor EXCEPT !.coordinate.x = @ + l.x_increment,
                           !.balance = @ + l.dy]
  IN  [major EXCEPT !.n_coordinates_remaining = @ - 1,
                    !.do_minor_increment = (major.balance >= 0)]

\* Mutant: the flag is taken from balance before the major-axis part.
next_flag_before_major(l) ==
  LET minor ==
        IF ~l.do_minor_increment THEN l
        ELSE IF is_y_major_axis(l)
             THEN [l EXCEPT !.coordinate.x = @ + l.x_increment,
                            !.balance = @ - l.dy]
             ELSE [l EXCEPT !.coordinate.y = @ + l.y_increment,
                            !.balance = @ - l.dx]
      major ==
        IF is_y_major_axis(l)
        THEN [minor EXCEPT !.coordinate.y = @ + l.y_increment,
                           !.balance = @ + l.dx]
        ELSE [minor EXCEPT !.coordinate.x = @ + l.x_increment,
                           !.balance = @ + l.dy]
  IN  [major EXCEPT !.n_coordinates_remaining = @ - 1,
                    !.do_minor_increment = (minor.balance >= 0)]

\* next(): the generator after one step.
next(l) ==
  LET minor ==
        IF ~l.do_minor_increment THEN l
        ELSE IF is_y_major_axis(l)
             THEN [l EXCEPT !.coordinate.x = @ + l.x_increment,
                            !.balance = @ - l.dy]
             ELSE [l EXCEPT !.coordinate.y = @ + l.y_increment,
                            !.balance = @ - l.dx]
      major ==
        IF is_y_major_axis(l)
        THEN [minor EXCEPT !.coordinate.y = @ + l.y_increment,
                           !.balance = @ + l.dx]
        ELSE [minor EXCEPT !.coordinate.x = @ + l.x_increment,
                           !.balance = @ + l.dy]
  IN  [major EXCEPT !.n_coordinates_remaining = @ - 1,
                    !.do_minor_increment = (major.balance >= 0)]

\* Mutant: the end test reads total_n_coordinates.
pre_increment_tests_total(p, l) ==
  IF l.total_n_coordinates = 0
  THEN [p |-> NULLPTR, l |-> l]
  ELSE [p |-> p, l |-> next(l)]

\* Mutant: the step is taken first and the end is tested afterwards.
pre_increment_step_first(p, l) ==
  IF next(l).n_coordinates_remaining = 0
  THEN [p |-> NULLPTR, l |-> next(l)]
  ELSE [p |-> p, l |-> next(l)]

\* iterator::operator++ on an iterator whose pointer p is not null: the
\* iterator's pointer and the generator after the call.
pre_increment(p, l) ==
  IF l.n_coordinates_remaining = 0
  THEN [p |-> NULLPTR, l |-> l]
  ELSE [p |-> p, l |-> next(l)]

\* iterator::operator*
dereference(p, l) == get_coordinate(l)

\* operator== of two iterators
iterator_equal(lhs, rhs) == lhs = rhs

\* end(): the pointer of a default-constructed iterator
end == NULLPTR

\* The coordinates a caller reads in
\*   for (i = l.begin(); i != l.end(); ++i) { read *i }
\* from the state l that begin() leaves.
RECURSIVE traverse(_)
traverse(l) ==
  IF pre_increment(THIS, l).p = NULLPTR
  THEN <<dereference(THIS, l)>>
  ELSE <<dereference(THIS, l)>> \o traverse(pre_increment(THIS, l).l)

\* The whole traversal of a newly constructed generator.
Traversal(first_, last_) == traverse(begin(bresenham_line(first_, last_)))

-----------------------------------------------------------------------------
(* The calling program: any sequence of begin(), ++ and iterator           *)
(* assignment on the iterators in Cursors.                                 *)

Init ==
  \E first_ \in Point, last_ \in Point :
    /\ line = bresenham_line(first_, last_)
    /\ last = last_
    /\ it = [c \in Cursors |-> end]
    /\ seq = <<get_coordinate(line)>>
    /\ prevSeq = <<>>
    /\ done = FALSE
    /\ fresh = TRUE
    /\ pc = "idle"
    /\ out = <<>>

\* c = line.begin()
CallBegin(c) ==
  /\ line' = begin(line)
  /\ it' = [it EXCEPT ![c] = THIS]
  /\ seq' = <<get_coordinate(line')>>
  /\ prevSeq' = IF done THEN seq ELSE <<>>
  /\ done' = FALSE
  /\ fresh' = (fresh /\ Len(seq) = 1)
  /\ UNCHANGED last

\* ++c
CallIncrement(c) ==
  /\ it[c] # NULLPTR
  /\ LET r == pre_increment(it[c], line)
     IN  /\ line' = r.l
         /\ it' = [it EXCEPT ![c] = r.p]
         /\ seq' = IF r.l = line THEN seq
                                 ELSE Append(seq, get_coordinate(r.l))
         /\ done' = (done \/ r.p = NULLPTR)
  /\ UNCHANGED <<last, prevSeq, fresh>>

Begin(c) ==
  /\ pc = "idle"
  /\ CallBegin(c)
  /\ UNCHANGED <<pc, out>>

Increment(c) ==
  /\ pc = "idle"
  /\ CallIncrement(c)
  /\ UNCHANGED <<pc, out>>

\* c = d  (iterator::operator=)
Assign(c, d) ==
  /\ pc = "idle"
  /\ c # d
  /\ it' = [it EXCEPT ![c] = it[d]]
  /\ UNCHANGED <<line, last, seq, prevSeq, done, fresh, pc, out>>

Next ==
  \E c \in Cursors :
    \/ Begin(c)
    \/ Increment(c)
    \/ \E d \in Cursors : Assign(c, d)

Spec == Init /\ [][Next]_vars

-----------------------------------------------------------------------------
(* The traversal loop                                                      *)
(*   for (a = line.begin(); a != line.end(); ++a) { out.push_back( *a ); } *)
(* entered in any state the calling program can leave the generator in.    *)

LoopBegin ==
  /\ pc = "idle"
  /\ CallBegin("a")
  /\ pc' = "test"
  /\ out' = <<>>

LoopTest ==
  /\ pc = "test"
  /\ pc' = IF iterator_equal(it["a"], end) THEN "done" ELSE "body"
  /\ UNCHANGED <<line, it, last, seq, prevSeq, done, fresh, out>>

LoopBody ==
  /\ pc = "body"
  /\ out' = Append(out, dereference(it["a"], line))
  /\ pc' = "inc"
  /\ UNCHANGED <<line, it, last, seq, prevSeq, done, fresh>>

LoopIncrement ==
  /\ pc = "inc"
  /\ CallIncrement("a")
  /\ pc' = "test"
  /\ UNCHANGED out

Loop == LoopBegin \/ LoopTest \/ LoopBody \/ LoopIncrement

LoopNext == Next \/ Loop

\* The loop is straight-line code of one thread: once entered it runs on.
LoopSpec == Init /\ [][LoopNext]_vars /\ WF_vars(Loop)

-----------------------------------------------------------------------------
(* Auxiliary definitions for the properties.                               *)

Reverse(s) == [i \in 1 .. Len(s) |-> s[Len(s) + 1 - i]]

RawDx == Abs(last.x - line.first.x)
RawDy == Abs(last.y - line.first.y)
YMajor == RawDx < RawDy
XSign == IF last.x < line.first.x THEN -1 ELSE 1
YSign == IF last.y < line.first.y THEN -1 ELSE 1

\* All coordinates of the traversal under way have been produced.
Exhausted == line.n_coordinates_remaining = 0

\* The k-th coordinate of the straight diagonal from first.
Diagonal(k) == [x |-> line.first.x + (k - 1) * XSign,
                y |-> line.first.y + (k - 1) * YSign]

\* The change of the major and of the minor component in a step.
MajorDelta == IF YMajor THEN line'.coordinate.y - line.coordinate.y
                        ELSE line'.coordinate.x - line.coordinate.x
MinorDelta == IF YMajor THEN line'.coordinate.x - line.coordinate.x
                        ELSE line'.coordinate.y - line.coordinate.y
MajorSign == IF YMajor THEN YSign ELSE XSign
MinorSign == IF YMajor THEN XSign ELSE YSign

MajorOf(p) == IF YMajor THEN p.y ELSE p.x
MinorOf(p) == IF YMajor THEN p.x ELSE p.y

\* The step is a call of next().
Advanced == line'.n_coordinates_remaining < line.n_coordinates_remaining

-----------------------------------------------------------------------------
(* Properties.                                                             *)

\* C1 - Endpoint law: the first coordinate a newly constructed generator
\* produces is first, and when its first traversal has no coordinate left
\* (after size()-1 advances) the current coordinate is last.
C1_EndpointLaw ==
  /\ seq[1] = line.first
  /\ (fresh /\ Exhausted) => (Len(seq) = size(line) /\ line.coordinate = last)

\* C2 - Restart idempotence: a traversal run to the end iterator, followed
\* by begin() and a second traversal run to the end iterator, gives the same
\* sequence of coordinates twice.
C2_RestartIdempotence ==
  (done /\ prevSeq # <<>>) => seq = prevSeq

\* C3 - Length law: in every reachable state size() is
\* max(|first.x - last.x|, |first.y - last.y|) + 1.
C3_LengthLaw ==
  size(line) = Max(Abs(line.first.x - last.x), Abs(line.first.y - last.y)) + 1

\* A generator with Y as the major axis that was advanced, reset and
\* advanced again.
C3_Witness ==
  /\ ~fresh
  /\ Len(seq) > 1
  /\ RawDx # 0
  /\ YMajor

\* C4 - Tie rule: on a pure diagonal (|dx| = |dy|) the first traversal of a
\* new generator produces first + k*(x_step, y_step), k = 0, 1, ..., in that
\* order.
C4_TieRule ==
  (fresh /\ RawDx = RawDy) =>
     \A k \in 1 .. Len(seq) : seq[k] = Diagonal(k)

\* C5 (as claimed) - Reversal symmetry: the first traversal of the generator
\* constructed from (first, last) is the reverse of the first traversal of
\* the generator constructed from (last, first).
C5_ReversalSymmetry ==
  (fresh /\ Exhausted) => seq = Reverse(Traversal(last, line.first))

\* C5 (amended) - the first traversal of the generator constructed from
\* (last, first) is the point reflection of the first traversal of the one
\* constructed from (first, last): both have the same length and their k-th
\* coordinates add up to first + last; when the segment is horizontal or
\* vertical it is also the exact reverse.
C5_PointReflection ==
  (fresh /\ Exhausted) =>
     LET back == Traversal(last, line.first)
     IN  /\ Len(back) = Len(seq)
         /\ \A k \in 1 .. Len(seq) :
               /\ seq[k].x + back[k].x = line.first.x + last.x
               /\ seq[k].y + back[k].y = line.first.y + last.y
         /\ (RawDx = 0 \/ RawDy = 0) => seq = Reverse(back)

\* The first traversal of a sloped, non-diagonal line of three or more
\* coordinates is complete.
C5_Witness ==
  /\ fresh
  /\ Exhausted
  /\ Len(seq) >= 3
  /\ RawDx # 0
  /\ RawDy # 0
  /\ RawDx # RawDy

\* C6 - Re-traversal: right after begin(), in whatever state it was called,
\* coordinate = first and n_coordinates_remaining = total_n_coordinates - 1,
\* and the traversal that follows, run to the end iterator, is the traversal
\* of a newly constructed generator with the same end points.
C6_Retraversal ==
  /\ Len(seq) = 1 =>
        /\ line.coordinate = line.first
        /\ line.n_coordinates_remaining = line.total_n_coordinates - 1
  /\ done => seq = Traversal(line.first, last)

\* C7 - Step law: every call of next() changes the major-axis component of
\* the current coordinate by exactly the major step sign and the minor-axis
\* component by 0 or by the minor step sign.
C7_StepLaw ==
  [][Advanced => /\ MajorDelta = MajorSign
                 /\ MinorDelta \in {0, MinorSign}]_vars

\* A traversal after a reset in which one step moved the minor axis and
\* another did not.
C7_Witness ==
  /\ ~fresh
  /\ \E j \in 1 .. Len(seq) - 1 : MinorOf(seq[j + 1]) # MinorOf(seq[j])
  /\ \E k \in 1 .. Len(seq) - 1 : MinorOf(seq[k + 1]) = MinorOf(seq[k])

\* C8 - Monotonicity: within one traversal the major-axis coordinate moves
\* strictly in the direction of its step sign, the minor-axis coordinate
\* never moves against its step sign, and no coordinate is produced twice.
C8_Monotonicity ==
  \A j, k \in 1 .. Len(seq) :
     j < k => /\ (MajorOf(seq[k]) - MajorOf(seq[j])) * MajorSign > 0
              /\ (MinorOf(seq[k]) - MinorOf(seq[j])) * MinorSign >= 0
              /\ seq[j] # seq[k]

\* A traversal after a reset, run to the end iterator, of four coordinates
\* with a negative major step, in which the minor axis moved.
C8_Witness ==
  /\ ~fresh
  /\ done
  /\ Len(seq) >= 4
  /\ MajorSign = -1
  /\ MinorOf(seq[Len(seq)]) # MinorOf(seq[1])

\* C9 - Traversal termination: the loop over begin() .. end() terminates,
\* has dereferenced exactly size() coordinates when it does, and its
\* iterator equals the end iterator only after size() coordinates were
\* dereferenced.
C9_TraversalTerminates ==
  /\ <>(pc = "done")
  /\ [](pc = "done" => Len(out) = size(line))
  /\ []((pc # "idle" /\ iterator_equal(it["a"], end)) =>
           Len(out) = size(line))

\* The loop has finished a traversal of four coordinates of a generator
\* that was used before.
C9_Witness ==
  /\ pc = "done"
  /\ ~fresh
  /\ Len(out) = 4
  /\ out[1] # out[4]

\* C10 - Advance at exhaustion: ++ on a live iterator with no coordinate
\* remaining makes it the end iterator and leaves the generator unchanged;
\* with coordinates remaining it applies next() once and the iterator stays
\* live.
C10_AdvanceAtExhaustion ==
  [][\A c \in Cursors :
       CallIncrement(c) =>
          IF line.n_coordinates_remaining = 0
          THEN /\ iterator_equal(it'[c], end)
               /\ line' = line
          ELSE /\ ~iterator_equal(it'[c], end)
               /\ line'.n_coordinates_remaining =
                     line.n_coordinates_remaining - 1
               /\ Len(seq') = Len(seq) + 1
               /\ line' = next(line)]_vars

\* An iterator was advanced to the end iterator while the other is live.
C10_Witness ==
  /\ done
  /\ Len(seq) >= 3
  /\ it["a"] = NULLPTR
  /\ it["b"] = THIS

\* C11 - Produced-count accounting: count() is the number of coordinates
\* produced in the traversal under way; it is 1 after construction and after
\* every begin(), grows by exactly 1 with each call of next(), is unchanged
\* by the ++ that yields the end iterator, and 1 <= count() <= size().
C11_ProducedCount ==
  /\ [](/\ count(line) = Len(seq)
        /\ 1 <= count(line)
        /\ count(line) <= size(line))
  /\ [][\A c \in Cursors : CallBegin(c) => count(line') = 1]_vars
  /\ [][\A c \in Cursors :
          CallIncrement(c) =>
             count(line') = IF line.n_coordinates_remaining = 0
                            THEN count(line)
                            ELSE count(line) + 1]_vars

\* A second traversal has produced three of its coordinates and is not
\* finished.
C11_Witness ==
  /\ ~fresh
  /\ count(line) = 3
  /\ size(line) > 3

\* C12 - Cursor aliasing: two live iterators of the generator dereference
\* to the same coordinate in every state; a ++ on one that calls next()
\* changes the coordinate the other dereferences to; begin() called while
\* another iterator is live puts that iterator at first.
C12_CursorAliasing ==
  /\ [](\A c, d \in Cursors :
          (it[c] # NULLPTR /\ it[d] # NULLPTR) =>
             dereference(it[c], line) = dereference(it[d], line))
  /\ [][\A c, d \in Cursors :
          (/\ c # d
           /\ it[d] # NULLPTR
           /\ line.n_coordinates_remaining # 0
           /\ CallIncrement(c)) =>
             /\ it'[d] # NULLPTR
             /\ dereference(it'[d], line') # dereference(it[d], line)
             /\ dereference(it'[d], line') = dereference(it'[c], line')]_vars
  /\ [][\A c, d \in Cursors :
          (c # d /\ it[d] # NULLPTR /\ CallBegin(c)) =>
             /\ it'[d] # NULLPTR
             /\ dereference(it'[d], line') = line.first]_vars

\* Both iterators are live in a traversal that was started again after an
\* advance and has advanced since.
C12_Witness ==
  /\ it["a"] = THIS
  /\ it["b"] = THIS
  /\ ~fresh
  /\ Len(seq) >= 2

\* The values of a signed working type whose maximum is m.
WorkingRange(m) == (0 - m - 1) .. m

\* The smallest maximum of the form 2^k - 1, from m upwards, that is at
\* least need.
RECURSIVE FitMax(_, _)
FitMax(m, need) == IF need <= m THEN m ELSE FitMax(2 * m + 1, need)

\* The maximum of the narrowest two's-complement working type in which
\* 2 * max(|dx|, |dy|) fits; a value outside WorkingRange(SafeMax) overflows
\* that type.
SafeMax == FitMax(1, 2 * Max(RawDx, RawDy))

\* The values the constructor stores in dx, dy, balance, total_n_coordinates
\* and n_coordinates_remaining.
ConstructorStores ==
  LET m == member_init(line.first, last)
      b == constructor_body(m)
  IN  {m.dx, m.dy, b.dx, b.dy, b.balance, b.total_n_coordinates,
       b.n_coordinates_remaining}

\* C13 - Overflow safe range: when 2 * max(|dx|, |dy|) fits in the working
\* type, every value the constructor and the traversals store in dx, dy,
\* balance, total_n_coordinates and n_coordinates_remaining is a value of
\* that type.
C13_OverflowSafeRange ==
  /\ ConstructorStores \subseteq WorkingRange(SafeMax)
  /\ {line.dx, line.dy, line.balance, line.total_n_coordinates,
      line.n_coordinates_remaining} \subseteq WorkingRange(SafeMax)
  /\ line.n_coordinates_remaining # 0 =>
        balance_after_minor(line) \in WorkingRange(SafeMax)

\* C14 - Degenerate case: a generator with first = last = p has size 1, its
\* iterator dereferences to p after begin(), and ++ on it yields the end
\* iterator and produces no other coordinate.
C14_DegenerateCase ==
  /\ [](line.first = last =>
          /\ size(line) = 1
          /\ seq = <<last>>
          /\ \A c \in Cursors :
                it[c] # NULLPTR => dereference(it[c], line) = last)
  /\ [][\A c \in Cursors :
          (line.first = last /\ CallIncrement(c)) =>
             /\ iterator_equal(it'[c], end)
             /\ line' = line
             /\ seq' = seq]_vars

\* The iterator of a one-point generator was advanced to the end iterator.
C14_Witness ==
  /\ line.first = last
  /\ done
  /\ it["a"] = NULLPTR

IsPrefix(s, t) ==
  /\ Len(s) <= Len(t)
  /\ \A k \in 1 .. Len(s) : s[k] = t[k]

ShallowExpected == << [x |-> 0, y |-> 0], [x |-> 1, y |-> 0],
                      [x |-> 2, y |-> 1], [x |-> 3, y |-> 1] >>

SteepExpected == << [x |-> 0, y |-> 0], [x |-> 0, y |-> 1],
                    [x |-> 1, y |-> 2], [x |-> 1, y |-> 3] >>

\* C15 - Shallow example: the first traversal from (0,0) to (3,1) is
\* (0,0), (1,0), (2,1), (3,1); size() is 4 and X is the major axis.
C15_ShallowExample ==
  (fresh /\ line.first = ShallowExpected[1] /\ last = ShallowExpected[4]) =>
     /\ size(line) = 4
     /\ ~is_y_major_axis(line)
     /\ IsPrefix(seq, ShallowExpected)
     /\ Exhausted => seq = ShallowExpected

\* The first traversal from (0,0) to (3,1) has run to the end iterator.
C15_Witness ==
  /\ fresh
  /\ done
  /\ line.first = ShallowExpected[1]
  /\ last = ShallowExpected[4]

\* C16 - Steep example: the first traversal from (0,0) to (1,3) is
\* (0,0), (0,1), (1,2), (1,3); size() is 4 and Y is the major axis.
C16_SteepExample ==
  (fresh /\ line.first = SteepExpected[1] /\ last = SteepExpected[4]) =>
     /\ size(line) = 4
     /\ is_y_major_axis(line)
     /\ IsPrefix(seq, SteepExpected)
     /\ Exhausted => seq = SteepExpected

\* The first traversal from (0,0) to (1,3) has run to the end iterator.
C16_Witness ==
  /\ fresh
  /\ done
  /\ line.first = SteepExpected[1]
  /\ last = SteepExpected[4]

\* C17 - Decision rule: in every reachable state do_minor_increment equals
\* (balance >= 0), so each call of next(), the first after construction and
\* the first after begin() included, moves the minor axis exactly if
\* balance >= 0 just before it.
C17_DecisionRule ==
  line.do_minor_increment = (line.balance >= 0)

\* C18 - Bounding box: whatever begin() and ++ calls were made, the
\* coordinate an iterator dereferences to lies in the rectangle spanned by
\* first and last.
C18_BoundingBox ==
  LET p == get_coordinate(line)
  IN  /\ (p.x - line.first.x) * (p.x - last.x) <= 0
      /\ (p.y - line.first.y) * (p.y - last.y) <= 0

\* C19 - Major-axis stability: Y is the major axis exactly if the raw
\* |dx| < |dy| (a tie makes X major), and the test next() makes on the
\* doubled dx and dy agrees, in every state, with the test the constructor
\* made on the raw deltas.
C19_MajorAxisStable ==
  /\ is_y_major_axis(member_init(line.first, last)) = (RawDx < RawDy)
  /\ is_y_major_axis(line) = is_y_major_axis(member_init(line.first, last))

\* A generator with Y as major axis and a non-zero minor delta, advanced
\* in a traversal after a reset.
C19_Witness ==
  /\ ~fresh
  /\ Len(seq) >= 3
  /\ RawDx > 0
  /\ RawDx < RawDy

=============================================================================
